---- MODULE Spec2Model ----
(***************************************************************************)
(* Proof-of-Divergence audit (src/firebase.js): the scheduled function     *)
(* runProofOfDivergence and its helpers, run by overlapping invocations    *)
(* against one document store.                                             *)
(*                                                                         *)
(* Time is in milliseconds.  Scores are in thousandths (1.0 = 1000), so    *)
(* that the threshold 0.005 is the integer 5.  Hash strings are sequences  *)
(* of characters, so that toLowerCase is a real conversion.                *)
(***************************************************************************)
EXTENDS Integers, Sequences, FiniteSets, TLC

VARIABLES now, rpcUrl, ledgerAddress, alerts, auditHistory, systemErrors,
          protocol, pc, loc, obs

vars == <<now, rpcUrl, ledgerAddress, alerts, auditHistory, systemErrors,
          protocol, pc, loc, obs>>

store == <<alerts, auditHistory, systemErrors, protocol>>
env == <<rpcUrl, ledgerAddress>>

\* ---------------------------------------------------------------- bounds
MaxClockSteps == 7   \* the clock is followed up to MaxClockSteps * 10 min

\* ------------------------------------------------------------- constants
thresholdDivergence == 5       \* 0.005, in thousandths
maxBlockchainRetries == 3
alertCooldownMs == 3600000
BackoffBaseMs == 1000
ScoreMatch == 0                \* 0.0
ScoreDrift == 1000             \* 1.0, in thousandths

TenMinutesMs == 10 * 60 * 1000
ClockSteps == {TenMinutesMs, alertCooldownMs}

\* the invocations of the scheduled function, in the order they start;
\* they may overlap
Procs == {1, 2}

\* ------------------------------------------------------------ JS values
Undefined == "undefined"
EnvValues == {Undefined, "", "set"}
\* variant: only an unset variable is taken as missing
Falsy_UndefinedOnly(v) == v = Undefined

\* !v for an environment string
Falsy(v) == v = Undefined \/ v = ""

\* The systemConfig/EVS_Active_Axioms document as the store may hold it.
NoDoc == [exists |-> FALSE]
DocWith(w) == [exists |-> TRUE, axiomaticWeights |-> w]
WUndefined == [kind |-> "undefined"]
WString == [kind |-> "string"]
WArray(a) == [kind |-> "array", val |-> a]
ConfigDocs == {NoDoc, DocWith(WUndefined), DocWith(WString),
               DocWith(WArray(<<>>)), DocWith(WArray(<<1, 2, 3>>))}

\* !axiomaticWeights: undefined is falsy, a non-empty string and every
\* array (the empty one too) are truthy
FalsyWeights(w) == w.kind = "undefined"
IsArray(w) == w.kind = "array"

\* Number.prototype.toString on the weights in use
NumToString(n) == CASE n = 1 -> "1" [] n = 2 -> "2" [] n = 3 -> "3" [] OTHER -> "?"
\* JSON.stringify(axiomaticWeights.map(w => w.toString()))
VectorString(a) == [i \in DOMAIN a |-> NumToString(a[i])]
\* ethers.keccak256 over the serialization: lowercase hex, one digest per
\* serialization
Keccak256(s) ==
  CASE s = <<"1", "2", "3">> -> <<"0", "x", "a", "b">>
    [] s = <<>> -> <<"0", "x", "e", "f">>
    [] OTHER -> <<"0", "x", "9", "9">>

\* String.prototype.toLowerCase
LowerChar(c) ==
  CASE c = "A" -> "a" [] c = "B" -> "b" [] c = "C" -> "c" [] c = "D" -> "d"
    [] c = "E" -> "e" [] c = "F" -> "f" [] OTHER -> c
toLowerCase(s) == [i \in DOMAIN s |-> LowerChar(s[i])]

\* What CORE_AXIOM_HASH() may return over RPC
AnchorHashes == {<<"0", "x", "a", "b">>, <<"0", "x", "A", "B">>,
                 <<"0", "x", "c", "d">>}

\* ---------------------------------------------------------------- errors
\* an error value: who raised it, and its message
ErrConfigNotFound == <<"Error", "SystemConfig EVS_Active_Axioms not found">>
ErrInvalidWeights == <<"Error", "Invalid or missing axiomatic weights">>
ErrBlockchainConfig == <<"HttpsError", "Blockchain configuration missing">>
ErrFetchFailed == <<"Error", "Failed to fetch blockchain hash after 3 attempts">>
ErrLoopExit == <<"Error", "Unexpected retry loop exit">>
\* a rejected document-store call, by collection
ErrStore(c) == <<"StoreError", c>>

NoHash == <<>>
NoError == <<"none", "">>

InitLoc == [localHash |-> NoHash, anchoredHash |-> NoHash, attempt |-> 0,
            wakeAt |-> 0, hashesMatch |-> FALSE, divergenceScore |-> 0,
            error |-> NoError]

\* What one invocation has done so far (history of the current tick)
InitObs == [rpcLog |-> <<>>, waits |-> <<>>, audits |-> 0, auditIdx |-> 0,
            queries |-> 0, queryTime |-> 0, recent |-> "none",
            alertsW |-> 0, alertIdx |-> 0, statusW |-> 0, errorsW |-> 0,
            result |-> "none", thrown |-> NoError]

\* an alert of another type, written to the alerts collection by another
\* system before the first invocation
ForeignAlertDoc ==
  [type |-> "OTHER", severity |-> "INFO", divergenceScore |-> 0,
   localHash |-> NoHash, anchoredHash |-> NoHash, timestamp |-> 0,
   acknowledged |-> FALSE, message |-> ""]

InitProtocol == [status |-> "NOMINAL", divergenceScore |-> 0,
                 lastDivergenceCheck |-> 0, driftDetails |-> ""]

Init ==
  /\ now = 0
  /\ rpcUrl \in EnvValues
  /\ ledgerAddress \in EnvValues
  /\ alerts \in {<<>>, <<ForeignAlertDoc>>}
  /\ auditHistory = <<>>
  /\ systemErrors = <<>>
  /\ protocol = InitProtocol
  /\ pc = [p \in Procs |-> "idle"]
  /\ loc = [p \in Procs |-> InitLoc]
  /\ obs = [p \in Procs |-> InitObs]

\* a throw inside the try block, the locals being l: control goes to the
\* catch clause
ThrowWith(p, l, e) ==
  /\ pc' = [pc EXCEPT ![p] = "catch"]
  /\ loc' = [loc EXCEPT ![p] = [l EXCEPT !.error = e]]

Throw(p, e) == ThrowWith(p, loc[p], e)

\* ------------------------------------------------------------- scheduler
\* pubsub trigger: a new invocation, also while another one is running
Start(p) ==
  /\ pc[p] = "idle"
  /\ \A q \in Procs : q < p => pc[q] # "idle"
  /\ pc' = [pc EXCEPT ![p] = "config"]
  /\ loc' = [loc EXCEPT ![p] = InitLoc]
  /\ obs' = [obs EXCEPT ![p] = InitObs]
  /\ UNCHANGED <<now, env, store>>

\* ------------------------------------------------ calculateLocalAxiomHash
CalculateLocalAxiomHash(p) ==
  /\ pc[p] = "config"
  /\ \E ok \in BOOLEAN, doc \in ConfigDocs :
       IF ~ok THEN Throw(p, ErrStore("systemConfig"))
       ELSE IF ~doc.exists THEN Throw(p, ErrConfigNotFound)
       ELSE IF FalsyWeights(doc.axiomaticWeights)
               \/ ~IsArray(doc.axiomaticWeights)
            THEN Throw(p, ErrInvalidWeights)
       ELSE /\ loc' = [loc EXCEPT ![p].localHash =
                         Keccak256(VectorString(doc.axiomaticWeights.val))]
            /\ pc' = [pc EXCEPT ![p] = "anchor"]
  /\ UNCHANGED <<now, env, store, obs>>

\* -------------------------------------------------- getBlockchainCoreHash
CheckBlockchainConfig(p) ==
  /\ pc[p] = "anchor"
  /\ IF Falsy(rpcUrl) \/ Falsy(ledgerAddress)
     THEN Throw(p, ErrBlockchainConfig)
     ELSE /\ pc' = [pc EXCEPT ![p] = IF 0 < maxBlockchainRetries
                                     THEN "rpc" ELSE "catch"]
          /\ loc' = [loc EXCEPT ![p].attempt = 0,
                                ![p].error = IF 0 < maxBlockchainRetries
                                             THEN NoError ELSE ErrLoopExit]
  /\ UNCHANGED <<now, env, store, obs>>

\* variant: the exponent counts attempts from 1
BackoffDelay_FromOne(attempt) == BackoffBaseMs * (2 ^ (attempt + 1))

\* setTimeout delay after failed attempt number attempt (from 0)
BackoffDelay(attempt) == BackoffBaseMs * (2 ^ attempt)

\* variant: gives up one attempt early
LastAttempt_Early(attempt) == attempt = maxBlockchainRetries - 2

\* attempt === config.maxBlockchainRetries - 1
LastAttempt(attempt) == attempt = maxBlockchainRetries - 1

\* one pass of the loop body: contract.CORE_AXIOM_HASH() answers or fails
RpcAttempt(p) ==
  /\ pc[p] = "rpc"
  /\ \E res \in AnchorHashes \cup {<<"fail">>} :
       /\ obs' = [obs EXCEPT
                    ![p].rpcLog = Append(@, res),
                    ![p].waits = IF res = <<"fail">>
                                    /\ ~LastAttempt(loc[p].attempt)
                                 THEN Append(@, BackoffDelay(loc[p].attempt))
                                 ELSE @]
       /\ IF res # <<"fail">>
          THEN /\ loc' = [loc EXCEPT ![p].anchoredHash = res]
               /\ pc' = [pc EXCEPT ![p] = "record"]
          ELSE IF LastAttempt(loc[p].attempt)
          THEN Throw(p, ErrFetchFailed)
          ELSE /\ loc' = [loc EXCEPT ![p].wakeAt =
                                       now + BackoffDelay(loc[p].attempt)]
               /\ pc' = [pc EXCEPT ![p] = "backoff"]
  /\ UNCHANGED <<now, env, store>>

\* variant: the loop goes round without counting the attempt
BackoffElapsed_NoIncrement(p) ==
  /\ pc[p] = "backoff"
  /\ now' = IF now < loc[p].wakeAt THEN loc[p].wakeAt ELSE now
  /\ pc' = [pc EXCEPT ![p] = "rpc"]
  /\ UNCHANGED <<env, store, loc, obs>>

\* the backoff timer fires (not before its delay has elapsed); attempt++
\* and the loop condition
BackoffElapsed(p) ==
  /\ pc[p] = "backoff"
  /\ now' = IF now < loc[p].wakeAt THEN loc[p].wakeAt ELSE now
  /\ IF loc[p].attempt + 1 < maxBlockchainRetries
     THEN /\ loc' = [loc EXCEPT ![p].attempt = @ + 1]
          /\ pc' = [pc EXCEPT ![p] = "rpc"]
     ELSE /\ loc' = [loc EXCEPT ![p].attempt = @ + 1, ![p].error = ErrLoopExit]
          /\ pc' = [pc EXCEPT ![p] = "catch"]
  /\ UNCHANGED <<env, store, obs>>

\* ------------------------------------------------------ evaluation, audit
\* variant: the hashes are compared as they are
HashesMatch_CaseSensitive(l, a) == l = a

\* localHash.toLowerCase() === anchoredHash.toLowerCase()
HashesMatch(l, a) == toLowerCase(l) = toLowerCase(a)
\* hashesMatch ? 0.0 : 1.0
DivergenceScore(m) == IF m THEN ScoreMatch ELSE ScoreDrift
\* hashesMatch ? 'OK' : 'DRIFT'
AuditStatus(m) == IF m THEN "OK" ELSE "DRIFT"
\* variant: the comparison is the wrong way round
AboveThreshold_Reversed(score) == score < thresholdDivergence

\* divergenceScore > config.thresholdDivergence
AboveThreshold(score) == score > thresholdDivergence

\* the document recordAuditResult adds
AuditDoc(l, a, score, status, t) ==
  [timestamp |-> t, localHash |-> l, anchoredHash |-> a,
   divergenceScore |-> score, status |-> status,
   hashMatch |-> (toLowerCase(l) = toLowerCase(a))]

\* variant: the record is added twice
AuditHistoryAdd_Twice(h, doc) == Append(Append(h, doc), doc)

\* db.collection('auditHistory').add(doc)
AuditHistoryAdd(h, doc) == Append(h, doc)

\* variant: a rejected audit write is swallowed
AfterAudit_IgnoreFailure(ok, score) ==
  IF AboveThreshold(score) THEN "breaker" ELSE "done"

\* where control goes after the audit write: a rejected write throws, a
\* score above the threshold enters the alerting branch, else return null
AfterAudit(ok, score) ==
  IF ~ok THEN "catch" ELSE IF AboveThreshold(score) THEN "breaker" ELSE "done"

\* `return null` of the handler
ReturnNull(o) == [o EXCEPT !.result = "null"]

\* steps 3-5 up to the next store call: compare, score, recordAuditResult,
\* then the threshold test; an OK tick returns here
RecordAuditResult(p) ==
  /\ pc[p] = "record"
  /\ LET m == HashesMatch(loc[p].localHash, loc[p].anchoredHash)
         score == DivergenceScore(m)
         l == [loc[p] EXCEPT !.hashesMatch = m, !.divergenceScore = score]
     IN \E ok \in BOOLEAN :
          LET next == AfterAudit(ok, score)
              o == IF ok THEN [obs[p] EXCEPT !.audits = @ + 1,
                                 !.auditIdx = Len(auditHistory) + 1]
                         ELSE obs[p]
          IN /\ auditHistory' =
                  IF ok THEN AuditHistoryAdd(auditHistory,
                               AuditDoc(l.localHash, l.anchoredHash, score,
                                        AuditStatus(m), now))
                        ELSE auditHistory
             /\ pc' = [pc EXCEPT ![p] = next]
             /\ loc' = [loc EXCEPT ![p] =
                          IF ok THEN l
                          ELSE [l EXCEPT !.error = ErrStore("auditHistory")]]
             /\ obs' = [obs EXCEPT ![p] =
                          IF next = "done" THEN ReturnNull(o) ELSE o]
  /\ UNCHANGED <<now, env, alerts, systemErrors, protocol>>

\* --------------------------------------------------------- hasRecentAlert
IsCoreDrift(a) == a.type = "CORE_DRIFT"
\* .limit(1)
Limit(s, n) == SubSeq(s, 1, IF Len(s) < n THEN Len(s) ELSE n)
\* variant: the cutoff itself counts as recent (>= for >)
HasRecentAlert_Inclusive(as, t) ==
  LET cutoff == t - alertCooldownMs
      After(a) == a.timestamp >= cutoff
      recentAlerts == Limit(SelectSeq(SelectSeq(as, IsCoreDrift), After), 1)
  IN ~(Len(recentAlerts) = 0)

\* variant: the cooldown is taken in seconds, not milliseconds
HasRecentAlert_Seconds(as, t) ==
  LET cutoff == t - (alertCooldownMs \div 1000)
      After(a) == a.timestamp > cutoff
      recentAlerts == Limit(SelectSeq(SelectSeq(as, IsCoreDrift), After), 1)
  IN ~(Len(recentAlerts) = 0)

\* the query of hasRecentAlert run at time t over the alerts collection
HasRecentAlert(as, t) ==
  LET cutoff == t - alertCooldownMs
      After(a) == a.timestamp > cutoff
      recentAlerts == Limit(SelectSeq(SelectSeq(as, IsCoreDrift), After), 1)
  IN ~(Len(recentAlerts) = 0)

\* variant: a rejected query is made again
AfterBreaker_RetryQuery(ok, r) ==
  IF ~ok THEN "breaker" ELSE IF r THEN "done" ELSE "alert"

\* where control goes after the query: a rejected query throws, a recent
\* alert skips the duplicate and returns null, else triggerCouncilAlert
AfterBreaker(ok, r) ==
  IF ~ok THEN "catch" ELSE IF r THEN "done" ELSE "alert"

\* the circuit breaker of step 5; a suppressed tick returns here
CheckCircuitBreaker(p) ==
  /\ pc[p] = "breaker"
  /\ \E ok \in BOOLEAN :
       LET r == HasRecentAlert(alerts, now)
           next == AfterBreaker(ok, r)
           o == [obs[p] EXCEPT !.queries = @ + 1, !.queryTime = now,
                   !.recent = IF ~ok THEN "none"
                              ELSE IF r THEN "recent" ELSE "clear"]
       IN /\ pc' = [pc EXCEPT ![p] = next]
          /\ loc' = [loc EXCEPT ![p].error =
                       IF ok THEN @ ELSE ErrStore("alerts.get")]
          /\ obs' = [obs EXCEPT ![p] =
                       IF next = "done" THEN ReturnNull(o) ELSE o]
  /\ UNCHANGED <<now, env, store>>

\* ---------------------------------------------------- triggerCouncilAlert
AlertMessage == "Local axiom hash does not match immutable blockchain anchor"

\* variant: the two hashes are stored in each other's field
AlertDoc_SwappedHashes(score, l, a, t) ==
  [type |-> "CORE_DRIFT", severity |-> "CRITICAL", divergenceScore |-> score,
   localHash |-> a, anchoredHash |-> l, timestamp |-> t,
   acknowledged |-> FALSE, message |-> AlertMessage]

\* the alertDoc of triggerCouncilAlert, timestamped by the store at t
AlertDoc(score, l, a, t) ==
  [type |-> "CORE_DRIFT", severity |-> "CRITICAL", divergenceScore |-> score,
   localHash |-> l, anchoredHash |-> a, timestamp |-> t,
   acknowledged |-> FALSE, message |-> AlertMessage]

\* db.collection('alerts').add(doc)
AlertsAdd(as, doc) == Append(as, doc)

\* the first write of triggerCouncilAlert
StoreAlert(p) ==
  /\ pc[p] = "alert"
  /\ \E ok \in BOOLEAN :
       IF ~ok
       THEN /\ Throw(p, ErrStore("alerts.add"))
            /\ UNCHANGED <<alerts, obs>>
       ELSE /\ alerts' = AlertsAdd(alerts,
                  AlertDoc(loc[p].divergenceScore, loc[p].localHash,
                           loc[p].anchoredHash, now))
            /\ obs' = [obs EXCEPT ![p].alertsW = @ + 1,
                                  ![p].alertIdx = Len(alerts) + 1]
            /\ pc' = [pc EXCEPT ![p] = "status"]
            /\ loc' = loc
  /\ UNCHANGED <<now, env, auditHistory, systemErrors, protocol>>

\* variant: the update leaves out the status field
UpdateProtocolStatus_NoStatusField(p) ==
  /\ pc[p] = "status"
  /\ \E ok \in BOOLEAN :
       IF ~ok
       THEN /\ Throw(p, ErrStore("governanceProtocols"))
            /\ UNCHANGED <<protocol, obs>>
       ELSE /\ protocol' = [protocol EXCEPT
                              !.divergenceScore = loc[p].divergenceScore,
                              !.lastDivergenceCheck = now,
                              !.driftDetails = AlertMessage]
            /\ obs' = [obs EXCEPT ![p] = ReturnNull([@ EXCEPT !.statusW = @ + 1])]
            /\ pc' = [pc EXCEPT ![p] = "done"]
            /\ loc' = loc
  /\ UNCHANGED <<now, env, alerts, auditHistory, systemErrors>>

\* governanceProtocols/MITHAQ_PROTOCOL_V2 .update({...}); then the handler
\* returns null
UpdateProtocolStatus(p) ==
  /\ pc[p] = "status"
  /\ \E ok \in BOOLEAN :
       IF ~ok
       THEN /\ Throw(p, ErrStore("governanceProtocols"))
            /\ UNCHANGED <<protocol, obs>>
       ELSE /\ protocol' = [protocol EXCEPT
                              !.status = "RED_ALARM_CORE_DRIFT",
                              !.divergenceScore = loc[p].divergenceScore,
                              !.lastDivergenceCheck = now,
                              !.driftDetails = AlertMessage]
            /\ obs' = [obs EXCEPT ![p] = ReturnNull([@ EXCEPT !.statusW = @ + 1])]
            /\ pc' = [pc EXCEPT ![p] = "done"]
            /\ loc' = loc
  /\ UNCHANGED <<now, env, alerts, auditHistory, systemErrors>>

\* ------------------------------------------------------- the catch clause
\* variant: the record does not carry the error's message
ErrorDoc_NoMessage(e, t) ==
  [timestamp |-> t, type |-> "KRP_AUDIT_FAILURE", error |-> ""]

\* the document the catch clause adds for the caught error e at time t
ErrorDoc(e, t) == [timestamp |-> t, type |-> "KRP_AUDIT_FAILURE", error |-> e[2]]

\* variant: the catch clause also marks the protocol record as failed
HandleFailure_MarksStatus(p) ==
  /\ pc[p] = "catch"
  /\ \E ok \in BOOLEAN :
       IF ~ok
       THEN /\ obs' = [obs EXCEPT ![p].result = "raised",
                                  ![p].thrown = ErrStore("systemErrors")]
            /\ UNCHANGED systemErrors
       ELSE /\ systemErrors' = Append(systemErrors, ErrorDoc(loc[p].error, now))
            /\ obs' = [obs EXCEPT ![p].errorsW = @ + 1,
                                  ![p].result = "raised",
                                  ![p].thrown = loc[p].error]
  /\ protocol' = [protocol EXCEPT !.status = "AUDIT_FAILURE"]
  /\ pc' = [pc EXCEPT ![p] = "done"]
  /\ UNCHANGED <<now, env, alerts, auditHistory, loc>>

\* systemErrors.add(...) and `throw error`; a rejected add throws out of
\* the catch clause itself
HandleFailure(p) ==
  /\ pc[p] = "catch"
  /\ \E ok \in BOOLEAN :
       IF ~ok
       THEN /\ obs' = [obs EXCEPT ![p].result = "raised",
                                  ![p].thrown = ErrStore("systemErrors")]
            /\ UNCHANGED systemErrors
       ELSE /\ systemErrors' = Append(systemErrors, ErrorDoc(loc[p].error, now))
            /\ obs' = [obs EXCEPT ![p].errorsW = @ + 1,
                                  ![p].result = "raised",
                                  ![p].thrown = loc[p].error]
  /\ pc' = [pc EXCEPT ![p] = "done"]
  /\ UNCHANGED <<now, env, alerts, auditHistory, protocol, loc>>

\* ------------------------------------------------------------ environment
\* wall-clock time passes between invocations.  One invocation is cut off
\* after timeoutSeconds (300 s), so the steps of ten minutes and more fall
\* between invocations; inside one, time passes in the backoff waits.
\* Time 0 is the start of the first invocation, and time is followed for
\* as long as an invocation is still to come.
AdvanceClock ==
  /\ \A p \in Procs : pc[p] \in {"idle", "done"}
  /\ \E p \in Procs : pc[p] = "done"
  /\ \E p \in Procs : pc[p] = "idle"
  /\ \E d \in ClockSteps :
       /\ now + d <= MaxClockSteps * TenMinutesMs
       /\ now' = now + d
  /\ UNCHANGED <<env, store, pc, loc, obs>>

Next ==
  \/ \E p \in Procs : Start(p)
  \/ \E p \in Procs : CalculateLocalAxiomHash(p)
  \/ \E p \in Procs : CheckBlockchainConfig(p)
  \/ \E p \in Procs : RpcAttempt(p)
  \/ \E p \in Procs : BackoffElapsed(p)
  \/ \E p \in Procs : RecordAuditResult(p)
  \/ \E p \in Procs : CheckCircuitBreaker(p)
  \/ \E p \in Procs : StoreAlert(p)
  \/ \E p \in Procs : UpdateProtocolStatus(p)
  \/ \E p \in Procs : HandleFailure(p)
  \/ AdvanceClock

Spec == Init /\ [][Next]_vars

\* the next step of invocation p: the continuation that runs when the call
\* it awaits (store, RPC, timer) has returned or failed
TickStep(p) ==
  \/ CalculateLocalAxiomHash(p)
  \/ CheckBlockchainConfig(p)
  \/ RpcAttempt(p)
  \/ BackoffElapsed(p)
  \/ RecordAuditResult(p)
  \/ CheckCircuitBreaker(p)
  \/ StoreAlert(p)
  \/ UpdateProtocolStatus(p)
  \/ HandleFailure(p)

\* the invocations alone, overlapping or one after the other with no time
\* passing in between, on a store that holds no alert of another system
TickInit == Init /\ alerts = <<>>

TickNext == \E p \in Procs : Start(p) \/ TickStep(p)

\* every awaited call eventually returns or fails and every timer fires:
\* a started invocation is not left suspended for ever
FairSpec ==
  /\ TickInit
  /\ [][TickNext]_vars
  /\ \A p \in Procs : WF_vars(TickStep(p))

TypeOK ==
  /\ now \in Nat
  /\ \A p \in Procs : pc[p] \in {"idle", "config", "anchor", "rpc", "backoff",
        "record", "breaker", "alert", "status", "catch", "done"}

\* ================================================================ claims
Failed == <<"fail">>
Ended(p) == pc[p] = "done"
ReturnedNull(p) == Ended(p) /\ obs[p].result = "null"
Raised(p) == Ended(p) /\ obs[p].result = "raised"
GotBothHashes(p) == loc[p].localHash # NoHash /\ loc[p].anchoredHash # NoHash
CoreDriftAlerts == SelectSeq(alerts, IsCoreDrift)
\* a CORE_DRIFT alert with a timestamp after t - alertCooldownMs
AlertInWindow(t) ==
  \E i \in DOMAIN alerts :
    alerts[i].type = "CORE_DRIFT" /\ alerts[i].timestamp + alertCooldownMs > t

\* C1: no two CORE_DRIFT alerts in the store have timestamps less than
\* alertCooldownMs apart, whatever the interleaving of the invocations.
C1_OneAlertPerCooldown ==
  \A i, j \in DOMAIN alerts :
    (i < j /\ IsCoreDrift(alerts[i]) /\ IsCoreDrift(alerts[j]))
      => \/ alerts[j].timestamp - alerts[i].timestamp >= alertCooldownMs
         \/ alerts[i].timestamp - alerts[j].timestamp >= alertCooldownMs

\* C2 as stated: a tick that obtained both hashes has appended exactly one
\* AuditRecord when it ends, and no tick appends more than one.
C2_ExactlyOneAuditWhenHashesObtained ==
  \A p \in Procs :
    /\ obs[p].audits <= 1
    /\ (Ended(p) /\ GotBothHashes(p)) => obs[p].audits = 1

\* C2 amended: a tick that obtained both hashes has, when it ends, appended
\* exactly one AuditRecord (OK or DRIFT, suppressed or not), unless the
\* audit write itself was rejected: then it appended none and failed.  No
\* tick appends more than one, and the ticks' appends are all there is in
\* auditHistory.
C2_OneAuditUnlessWriteFails ==
  /\ Len(auditHistory) = obs[1].audits + obs[2].audits
  /\ \A p \in Procs :
       /\ obs[p].audits <= 1
       /\ (Ended(p) /\ GotBothHashes(p)) =>
            \/ obs[p].audits = 1
            \/ /\ obs[p].audits = 0
               /\ loc[p].error = ErrStore("auditHistory")
               /\ obs[p].result = "raised"
       /\ ReturnedNull(p) => obs[p].audits = 1

C2_Witness ==
  \E p \in Procs :
    /\ ReturnedNull(p) /\ obs[p].recent = "recent" /\ obs[p].audits = 1
    /\ auditHistory[obs[p].auditIdx].status = "DRIFT"

\* the AuditRecord of tick p is in auditHistory
AuditPresent(p) ==
  /\ obs[p].audits = 1
  /\ obs[p].auditIdx \in DOMAIN auditHistory
  /\ auditHistory[obs[p].auditIdx].localHash = loc[p].localHash
  /\ auditHistory[obs[p].auditIdx].anchoredHash = loc[p].anchoredHash

\* C3: a tick that has queried the circuit breaker, or is about to, or has
\* written an alert or the protocol status, has its AuditRecord in
\* auditHistory already; so has a tick that failed in the query or in the
\* alert dispatcher.
C3_AuditBeforeAlerting ==
  \A p \in Procs :
    (\/ pc[p] \in {"breaker", "alert", "status"}
     \/ obs[p].queries > 0 \/ obs[p].alertsW > 0 \/ obs[p].statusW > 0
     \/ loc[p].error \in {ErrStore("alerts.get"), ErrStore("alerts.add"),
                          ErrStore("governanceProtocols")})
      => AuditPresent(p)

C3_Witness ==
  \E p \in Procs :
    /\ Raised(p) /\ loc[p].error = ErrStore("alerts.add") /\ AuditPresent(p)

\* C4: a DRIFT tick that found no recent alert and returned null has
\* appended exactly one AlertRecord, CORE_DRIFT / CRITICAL / unacknowledged
\* with its hashes and score, and has set ProtocolStatus to the alarm state
\* with its score.
C4_AlertAndAlarmOnDrift ==
  /\ Len(CoreDriftAlerts) = obs[1].alertsW + obs[2].alertsW
  /\ \A p \in Procs :
       (ReturnedNull(p) /\ ~loc[p].hashesMatch /\ obs[p].recent = "clear") =>
         /\ obs[p].alertsW = 1
         /\ obs[p].alertIdx \in DOMAIN alerts
         /\ LET a == alerts[obs[p].alertIdx]
            IN /\ a.type = "CORE_DRIFT"
               /\ a.severity = "CRITICAL"
               /\ a.acknowledged = FALSE
               /\ a.localHash = loc[p].localHash
               /\ a.anchoredHash = loc[p].anchoredHash
               /\ a.divergenceScore = loc[p].divergenceScore
               /\ a.divergenceScore = ScoreDrift
         /\ obs[p].statusW = 1
         /\ protocol.status = "RED_ALARM_CORE_DRIFT"
         /\ protocol.divergenceScore = loc[p].divergenceScore

C4_Witness ==
  \E p \in Procs :
    /\ ReturnedNull(p) /\ ~loc[p].hashesMatch /\ obs[p].recent = "clear"
    /\ loc[p].localHash # loc[p].anchoredHash
    /\ protocol.status = "RED_ALARM_CORE_DRIFT"

\* C5: a tick whose query found a recent alert writes no AlertRecord and no
\* ProtocolStatus, and its suppressing step leaves both as they were; a
\* tick that queries ten minutes after a CORE_DRIFT alert is suppressed.
C5_Suppressed ==
  /\ [](\A p \in Procs :
          /\ obs[p].recent = "recent" =>
               obs[p].alertsW = 0 /\ obs[p].statusW = 0 /\ ReturnedNull(p)
          /\ \A i \in DOMAIN alerts :
               (/\ IsCoreDrift(alerts[i])
                /\ obs[p].recent # "none"
                /\ obs[p].queryTime - alerts[i].timestamp = TenMinutesMs)
                 => obs[p].recent = "recent")
  /\ [][\A p \in Procs :
          (obs[p].recent # "recent" /\ obs'[p].recent = "recent")
            => alerts' = alerts /\ protocol' = protocol]_vars

\* the second tick of the scenario has ended: the first tick's alert and
\* status, written ten minutes before, are what the store holds
C5_Witness ==
  \E p \in Procs :
    /\ ReturnedNull(p) /\ obs[p].recent = "recent"
    /\ Len(CoreDriftAlerts) = 1
    /\ obs[p].queryTime - CoreDriftAlerts[1].timestamp = TenMinutesMs
    /\ protocol.status = "RED_ALARM_CORE_DRIFT"
    /\ protocol.lastDivergenceCheck = CoreDriftAlerts[1].timestamp

\* C6: alerts and ProtocolStatus are written only by a step of a DRIFT tick
\* whose query found no recent alert; an OK tick makes no query, writes
\* neither, and returns.
C6_DispatchOnlyOnUnsuppressedDrift ==
  /\ [](\A p \in Procs :
          /\ (obs[p].alertsW > 0 \/ obs[p].statusW > 0
              \/ pc[p] \in {"alert", "status"})
               => /\ ~loc[p].hashesMatch
                  /\ obs[p].auditIdx \in DOMAIN auditHistory
                  /\ auditHistory[obs[p].auditIdx].status = "DRIFT"
                  /\ obs[p].queries = 1
                  /\ obs[p].recent = "clear"
          /\ (obs[p].audits = 1
              /\ auditHistory[obs[p].auditIdx].status = "OK")
               => /\ obs[p].queries = 0
                  /\ obs[p].alertsW = 0
                  /\ obs[p].statusW = 0
                  /\ ReturnedNull(p))
  /\ [][(alerts' # alerts \/ protocol' # protocol) =>
          \E p \in Procs :
            /\ pc[p] \in {"alert", "status"} /\ pc'[p] # pc[p]
            /\ obs[p].recent = "clear"
            /\ ~loc[p].hashesMatch]_vars

C6_Witness ==
  \E p, q \in Procs :
    /\ ReturnedNull(p) /\ loc[p].hashesMatch /\ obs[p].queries = 0
    /\ loc[p].localHash # loc[p].anchoredHash
    /\ ReturnedNull(q) /\ obs[q].statusW = 1

\* C7: the query step suppresses exactly when the store holds a CORE_DRIFT
\* alert with timestamp > now - alertCooldownMs; one at now - alertCooldownMs
\* or older, or of another type, does not suppress.
C7_SuppressIffAlertInWindow ==
  [][\A p \in Procs :
       (pc[p] = "breaker" /\ pc'[p] \in {"done", "alert"}) =>
         /\ (pc'[p] = "done") <=> AlertInWindow(now)
         /\ (\A i \in DOMAIN alerts :
               \/ alerts[i].type # "CORE_DRIFT"
               \/ alerts[i].timestamp <= now - alertCooldownMs)
              => pc'[p] = "alert"]_vars

\* not suppressed with a CORE_DRIFT alert exactly alertCooldownMs old
C7_Witness ==
  \E p \in Procs :
    /\ pc[p] = "alert"
    /\ \E i \in DOMAIN alerts :
         /\ IsCoreDrift(alerts[i])
         /\ alerts[i].timestamp = obs[p].queryTime - alertCooldownMs

\* the delay the code must wait after the i-th failed attempt (i from 1)
ExpectedDelay(i) == 1000 * (2 ^ (i - 1))
AllFailed(p) == \A i \in DOMAIN obs[p].rpcLog : obs[p].rpcLog[i] = Failed

\* C8: with every RPC call failing there are exactly maxBlockchainRetries
\* attempts, a wait of 1000 * 2^i ms after failed attempt i and before the
\* next one, none after the last, and the error is raised only when the
\* last attempt has failed.
C8_RetriesThenRaise ==
  /\ [](\A p \in Procs :
          /\ Len(obs[p].rpcLog) <= maxBlockchainRetries
          /\ AllFailed(p) =>
               /\ Len(obs[p].waits) =
                    IF Len(obs[p].rpcLog) = maxBlockchainRetries
                    THEN maxBlockchainRetries - 1 ELSE Len(obs[p].rpcLog)
               /\ \A i \in DOMAIN obs[p].waits :
                    obs[p].waits[i] = ExpectedDelay(i)
               /\ (loc[p].error = ErrFetchFailed)
                    <=> Len(obs[p].rpcLog) = maxBlockchainRetries
          /\ loc[p].error = ErrFetchFailed =>
               AllFailed(p) /\ pc[p] \in {"catch", "done"})
  /\ [][\A p \in Procs :
          /\ (pc[p] = "rpc" /\ pc'[p] = "backoff") =>
               loc'[p].wakeAt = now + ExpectedDelay(Len(obs'[p].rpcLog))
          /\ (pc[p] = "backoff" /\ pc'[p] # "backoff") =>
               now' >= loc[p].wakeAt /\ pc'[p] = "rpc"]_vars

C8_Witness ==
  \E p \in Procs :
    /\ Raised(p) /\ obs[p].thrown = ErrFetchFailed
    /\ obs[p].rpcLog = <<Failed, Failed, Failed>>
    /\ obs[p].waits = <<1000, 2000>>

\* C9: when attempt k answers after k-1 failures, the hash of attempt k is
\* the anchored hash, k-1 backoff waits were made, no attempt follows, and
\* the failures leave no error: the tick raises only for a rejected store
\* call, and a tick that returns null has written no ErrorRecord.
C9_SuccessAfterFailures ==
  \A p \in Procs :
    loc[p].anchoredHash # NoHash =>
      LET k == Len(obs[p].rpcLog)
      IN /\ k \in 1..maxBlockchainRetries
         /\ obs[p].rpcLog[k] = loc[p].anchoredHash
         /\ \A i \in 1..(k - 1) : obs[p].rpcLog[i] = Failed
         /\ Len(obs[p].waits) = k - 1
         /\ \A i \in 1..(k - 1) : obs[p].waits[i] = ExpectedDelay(i)
         /\ pc[p] \notin {"rpc", "backoff"}
         /\ loc[p].error \in {NoError, ErrStore("auditHistory"),
              ErrStore("alerts.get"), ErrStore("alerts.add"),
              ErrStore("governanceProtocols")}
         /\ ReturnedNull(p) => obs[p].errorsW = 0 /\ obs[p].thrown = NoError

C9_Witness ==
  \E p \in Procs :
    /\ ReturnedNull(p) /\ Len(obs[p].rpcLog) = maxBlockchainRetries
    /\ obs[p].waits = <<1000, 2000>> /\ obs[p].errorsW = 0

\* C10: with the RPC endpoint or the contract address empty or unset, no
\* RPC call is attempted, no backoff wait is made, and every tick fails.
C10_NoAttemptWithoutConfiguration ==
  (rpcUrl \in {Undefined, ""} \/ ledgerAddress \in {Undefined, ""}) =>
    \A p \in Procs :
      /\ obs[p].rpcLog = <<>>
      /\ obs[p].waits = <<>>
      /\ pc[p] \in {"idle", "config", "anchor", "catch", "done"}
      /\ loc[p].anchoredHash = NoHash
      /\ Ended(p) => obs[p].result = "raised"
      /\ (pc[p] \in {"catch", "done"} /\ loc[p].localHash # NoHash)
           => loc[p].error = ErrBlockchainConfig

C10_Witness ==
  \E p \in Procs :
    /\ rpcUrl = "set" /\ ledgerAddress = ""
    /\ Raised(p) /\ obs[p].thrown = ErrBlockchainConfig
    /\ obs[p].rpcLog = <<>>

\* a step of tick p has failed: the try block has thrown
StepFailed(p) == loc[p].error # NoError
\* an ErrorRecord with the message of the failure of tick p is on record
ErrorRecorded(p) ==
  \E i \in DOMAIN systemErrors :
    /\ systemErrors[i].type = "KRP_AUDIT_FAILURE"
    /\ systemErrors[i].error = loc[p].error[2]

\* C11 as stated: a tick in which a step failed has, when it ends, appended
\* exactly one ErrorRecord for that failure and raised that failure; a tick
\* in which no step failed has written no ErrorRecord and returned null.
C11_OneErrorRecordAndReraise ==
  \A p \in Procs :
    Ended(p) =>
      IF StepFailed(p)
      THEN /\ obs[p].result = "raised"
           /\ obs[p].errorsW = 1
           /\ ErrorRecorded(p)
           /\ obs[p].thrown = loc[p].error
      ELSE obs[p].result = "null" /\ obs[p].errorsW = 0

\* C11 amended: a tick in which a step failed never returns null: it makes
\* one ErrorRecord write and raises.  If the store accepts the write,
\* exactly one ErrorRecord with the failure's message is appended and that
\* failure is raised; if the store rejects it, none is appended.  A tick in
\* which no step failed writes no ErrorRecord and returns null.  The
\* ErrorRecords of the ticks are all there is in systemErrors.
C11_ErrorRecordUnlessWriteFails ==
  /\ Len(systemErrors) = obs[1].errorsW + obs[2].errorsW
  /\ \A p \in Procs :
       /\ obs[p].errorsW <= 1
       /\ obs[p].errorsW = 1 => Raised(p) /\ StepFailed(p)
       /\ Ended(p) =>
            IF StepFailed(p)
            THEN /\ obs[p].result = "raised"
                 /\ \/ /\ obs[p].errorsW = 1
                       /\ ErrorRecorded(p)
                       /\ obs[p].thrown = loc[p].error
                    \/ /\ obs[p].errorsW = 0
                       /\ obs[p].thrown = ErrStore("systemErrors")
            ELSE /\ obs[p].result = "null"
                 /\ obs[p].errorsW = 0
                 /\ obs[p].thrown = NoError

\* the ledger read failed three times: one ErrorRecord, failure raised
C11_Witness ==
  \E p \in Procs :
    /\ Raised(p) /\ loc[p].error = ErrFetchFailed
    /\ obs[p].errorsW = 1 /\ ErrorRecorded(p)
    /\ obs[p].thrown = ErrFetchFailed

\* C12: a tick that ends by raising raises the failure of the step that
\* failed, also when the write of the ErrorRecord was rejected.
C12_OriginalFailureReraised ==
  \A p \in Procs : Raised(p) => obs[p].thrown = loc[p].error

\* two characters that differ at most in case
SameLetter(c, d) ==
  \/ c = d
  \/ {c, d} \in {{"a", "A"}, {"b", "B"}, {"c", "C"}, {"d", "D"},
                 {"e", "E"}, {"f", "F"}}
\* two hash strings that are equal after case normalization
EqualIgnoringCase(l, a) ==
  /\ Len(l) = Len(a)
  /\ \A i \in DOMAIN l : SameLetter(l[i], a[i])
InAlertingBranch(p) ==
  pc[p] \in {"breaker", "alert", "status"} \/ obs[p].queries > 0

\* C13: the AuditRecord of a tick has score 0.0 and status OK if its two
\* hashes are equal up to case, and score 1.0 and status DRIFT otherwise;
\* its status is OK exactly when its score is at most the threshold, and
\* the tick is in the alerting branch exactly when its status is DRIFT.
C13_EvaluationMatchesHashes ==
  \A p \in Procs :
    obs[p].audits = 1 =>
      LET rec == auditHistory[obs[p].auditIdx]
          same == EqualIgnoringCase(loc[p].localHash, loc[p].anchoredHash)
      IN /\ rec.localHash = loc[p].localHash
         /\ rec.anchoredHash = loc[p].anchoredHash
         /\ rec.divergenceScore = IF same THEN 0 ELSE 1000
         /\ rec.status = IF same THEN "OK" ELSE "DRIFT"
         /\ rec.hashMatch = same
         /\ (rec.status = "OK") <=> (rec.divergenceScore <= thresholdDivergence)
         /\ loc[p].divergenceScore = rec.divergenceScore
         /\ InAlertingBranch(p) <=> (rec.status = "DRIFT")

\* an OK tick whose hashes differ in case only
C13_Witness ==
  \E p \in Procs :
    /\ ReturnedNull(p) /\ obs[p].audits = 1
    /\ loc[p].localHash # loc[p].anchoredHash
    /\ auditHistory[obs[p].auditIdx].status = "OK"
    /\ auditHistory[obs[p].auditIdx].hashMatch

\* C14: no step takes ProtocolStatus out of the alarm state.
C14_AlarmNeverCleared ==
  [][protocol.status = "RED_ALARM_CORE_DRIFT"
       => protocol'.status = "RED_ALARM_CORE_DRIFT"]_vars

\* a later tick has ended after the alarm was raised, and the alarm stands:
\* an OK tick and a failed tick
C14_Witness ==
  /\ protocol.status = "RED_ALARM_CORE_DRIFT"
  /\ \E p \in Procs :
       /\ Ended(p) /\ obs[p].statusW = 0
       /\ \/ /\ obs[p].audits = 1
             /\ auditHistory[obs[p].auditIdx].status = "OK"
             /\ auditHistory[obs[p].auditIdx].timestamp
                  > protocol.lastDivergenceCheck
          \/ /\ obs[p].errorsW = 1
             /\ systemErrors[Len(systemErrors)].timestamp
                  > protocol.lastDivergenceCheck

\* a configuration document the spec counts as well-formed: it exists and
\* its weights are a non-empty array
WellFormed(d) ==
  /\ d.exists
  /\ d.axiomaticWeights.kind = "array"
  /\ Len(d.axiomaticWeights.val) > 0

\* C15: a tick has a local hash only if the configuration document exists
\* and its weights are a non-empty array; a missing document and absent,
\* non-array or empty weights make the tick fail without a local hash.
C15_InvalidConfigurationFails ==
  \A p \in Procs :
    loc[p].localHash # NoHash =>
      \E d \in ConfigDocs :
        /\ WellFormed(d)
        /\ loc[p].localHash = Keccak256(VectorString(d.axiomaticWeights.val))

\* C16: a tick whose status update was rejected has its AlertRecord in the
\* store, has not written ProtocolStatus, and ends by raising that failure;
\* a tick whose alert append was rejected has written neither and ends by
\* raising that failure.
C16_DispatcherFailureSurfaced ==
  \A p \in Procs :
    /\ loc[p].error = ErrStore("governanceProtocols") =>
         /\ obs[p].alertsW = 1
         /\ obs[p].alertIdx \in DOMAIN alerts
         /\ alerts[obs[p].alertIdx].localHash = loc[p].localHash
         /\ obs[p].statusW = 0
         /\ Ended(p) => /\ obs[p].result = "raised"
                        /\ obs[p].thrown = loc[p].error
    /\ loc[p].error = ErrStore("alerts.add") =>
         /\ obs[p].alertsW = 0
         /\ obs[p].statusW = 0
         /\ pc[p] \in {"catch", "done"}
         /\ Ended(p) => /\ obs[p].result = "raised"
                        /\ obs[p].thrown = loc[p].error

\* the order of the steps of one tick: from each position, the positions
\* that may come next (rpc / backoff is the retry loop of FetchingAnchor)
StepOrder ==
  {<<"idle", "config">>,
   <<"config", "anchor">>, <<"config", "catch">>,
   <<"anchor", "rpc">>, <<"anchor", "catch">>,
   <<"rpc", "backoff">>, <<"backoff", "rpc">>,
   <<"rpc", "record">>, <<"rpc", "catch">>,
   <<"record", "breaker">>, <<"record", "done">>, <<"record", "catch">>,
   <<"breaker", "alert">>, <<"breaker", "done">>, <<"breaker", "catch">>,
   <<"alert", "status">>, <<"alert", "catch">>,
   <<"status", "done">>, <<"status", "catch">>,
   <<"catch", "done">>}

Suppressed(p) == obs[p].recent = "recent" /\ obs[p].alertsW = 0
Alerting(p) ==
  obs[p].recent = "clear" /\ obs[p].alertsW = 1 /\ obs[p].statusW = 1
NoAlertNeeded(p) == obs[p].queries = 0 /\ loc[p].hashesMatch

\* C17: a tick moves through ComputingLocalHash, FetchingAnchor,
\* Evaluating/Recording and then one of Suppressed, Alerting, NoAlertNeeded
\* in that order, one step at a time and no step twice; no RPC call comes
\* before the local hash, and no breaker query before the AuditRecord.
C17_StrictStepOrder ==
  /\ [](\A p \in Procs :
          /\ obs[p].rpcLog # <<>> => loc[p].localHash # NoHash
          /\ loc[p].anchoredHash # NoHash => loc[p].localHash # NoHash
          /\ obs[p].audits > 0 => GotBothHashes(p)
          /\ obs[p].queries > 0 => obs[p].audits = 1
          /\ obs[p].alertsW > 0 => obs[p].queries = 1
          /\ obs[p].statusW > 0 => obs[p].alertsW = 1
          /\ obs[p].audits <= 1 /\ obs[p].queries <= 1
          /\ obs[p].alertsW <= 1 /\ obs[p].statusW <= 1
          /\ ReturnedNull(p) =>
               /\ obs[p].audits = 1
               /\ Suppressed(p) \/ Alerting(p) \/ NoAlertNeeded(p)
               /\ ~(Suppressed(p) /\ Alerting(p))
               /\ ~(Suppressed(p) /\ NoAlertNeeded(p))
               /\ ~(Alerting(p) /\ NoAlertNeeded(p)))
  /\ [][\A p \in Procs :
          /\ pc'[p] # pc[p] => <<pc[p], pc'[p]>> \in StepOrder
          /\ \A q \in Procs :
               (pc'[p] # pc[p] /\ q # p) => pc'[q] = pc[q]]_vars

\* both ways through the alerting branch have been taken to the end
C17_Witness ==
  \E p, q \in Procs :
    /\ ReturnedNull(p) /\ Alerting(p) /\ Len(obs[p].rpcLog) > 1
    /\ ReturnedNull(q) /\ Suppressed(q)

Running(p) == pc[p] \notin {"idle", "done"}

\* C18: with every awaited call returning or failing and every backoff
\* timer firing, a started tick ends, by returning null or by raising; it
\* makes at most maxBlockchainRetries RPC attempts.
C18_TickTerminates ==
  /\ \A p \in Procs : Running(p) ~> Ended(p)
  /\ [](\A p \in Procs :
          /\ Len(obs[p].rpcLog) <= maxBlockchainRetries
          /\ loc[p].attempt < maxBlockchainRetries
          /\ Ended(p) => obs[p].result \in {"null", "raised"})

\* a tick that went through every retry and both alert writes has ended
C18_Witness ==
  \E p \in Procs :
    /\ Ended(p) /\ Len(obs[p].rpcLog) = maxBlockchainRetries
    /\ obs[p].statusW = 1

BetweenTheTwoWrites(p) == pc[p] = "status"
AlertOnRecord == Len(CoreDriftAlerts) > 0
InAlarm == protocol.status = "RED_ALARM_CORE_DRIFT"

\* C19 as stated: when no tick is between the two writes of
\* triggerCouncilAlert, a CORE_DRIFT alert on record implies that
\* ProtocolStatus is in the alarm state.
C19_AlertImpliesAlarm ==
  (\A p \in Procs : ~BetweenTheTwoWrites(p)) => (AlertOnRecord => InAlarm)

\* C19 amended: the same, for the states in which no tick has had its
\* ProtocolStatus update rejected after its alert was appended.
C19_AlertImpliesAlarmUnlessUpdateRejected ==
  (\A p \in Procs :
     /\ ~BetweenTheTwoWrites(p)
     /\ loc[p].error # ErrStore("governanceProtocols"))
    => (AlertOnRecord => InAlarm)

\* an alerting tick and a later suppressed tick have both ended
C19_Witness ==
  /\ AlertOnRecord /\ InAlarm
  /\ \A p \in Procs : Ended(p)
  /\ \E p, q \in Procs : Alerting(p) /\ Suppressed(q)

\* the failures that come before the Recording step
FailedBeforeRecording(p) ==
  loc[p].error \in {ErrStore("systemConfig"), ErrConfigNotFound,
                    ErrInvalidWeights, ErrBlockchainConfig, ErrFetchFailed,
                    ErrLoopExit}

\* C20 as stated: a tick that failed before Recording has, when it ends,
\* written nothing to auditHistory, alerts and ProtocolStatus, and one
\* ErrorRecord to systemErrors.
C20_OnlyTheErrorRecord ==
  \A p \in Procs :
    (Ended(p) /\ FailedBeforeRecording(p)) =>
      /\ obs[p].audits = 0 /\ obs[p].alertsW = 0 /\ obs[p].statusW = 0
      /\ obs[p].errorsW = 1

\* C20 amended: a tick that fails before Recording writes nothing to
\* auditHistory, alerts and ProtocolStatus, and none of its steps changes
\* them; its only store change is the ErrorRecord of its failure appended
\* to systemErrors, or none when that write is rejected.
C20_AtMostTheErrorRecord ==
  /\ [](\A p \in Procs :
          FailedBeforeRecording(p) =>
            /\ obs[p].audits = 0 /\ obs[p].alertsW = 0 /\ obs[p].statusW = 0
            /\ loc[p].anchoredHash = NoHash
            /\ obs[p].errorsW <= 1
            /\ Ended(p) =>
                 /\ obs[p].result = "raised"
                 /\ obs[p].errorsW = 1
                    \/ obs[p].thrown = ErrStore("systemErrors"))
  /\ [][\A p \in Procs :
          (/\ pc'[p] # pc[p]
           /\ \/ pc[p] \in {"idle", "config", "anchor", "rpc", "backoff"}
              \/ pc[p] = "catch" /\ FailedBeforeRecording(p))
            => /\ auditHistory' = auditHistory
               /\ alerts' = alerts
               /\ protocol' = protocol
               /\ \/ systemErrors' = systemErrors
                  \/ /\ pc[p] = "catch"
                     /\ systemErrors' = Append(systemErrors,
                          [timestamp |-> now, type |-> "KRP_AUDIT_FAILURE",
                           error |-> loc[p].error[2]])]_vars

\* a tick failed on its configuration after another tick had filled the
\* store: the audit record, the alert and the alarm are as that tick left
\* them
C20_Witness ==
  \E p \in Procs :
    /\ Raised(p) /\ loc[p].error = ErrInvalidWeights /\ obs[p].errorsW = 1
    /\ systemErrors[Len(systemErrors)].timestamp > protocol.lastDivergenceCheck
    /\ Len(auditHistory) = 1 /\ Len(CoreDriftAlerts) = 1 /\ InAlarm

====
